---------------------------- MODULE Spec2Model ----------------------------
(***************************************************************************)
(* A model of format_symphony_user.py: the conversion of CSV user rows to  *)
(* the LDUSER text format, the copy to the stable destination, the         *)
(* retention pass over generated_ascii and the optional SFTP upload.       *)
(*                                                                         *)
(* A Python str is a sequence of one-character strings.  The text written  *)
(* to a file is such a sequence too, line breaks included.                 *)
(***************************************************************************)
EXTENDS Integers, Sequences, FiniteSets, TLC

(***************************************************************************)
(* Bounds of the model.                                                    *)
(***************************************************************************)
MaxRows == 2        \* rows of the input CSV
MaxPrior == 14      \* '.txt' files present in generated_ascii before the run
Res == 2            \* clock ticks per whole second (sub-second resolution)

(***************************************************************************)
(* Program constants.                                                      *)
(***************************************************************************)
KEEP == 10          \* sorted_r[10:]
PIN_LEN == 4        \* user_id[-4:]
SCHOOL_YEARS == 12  \* years_to_grad = 12 - int(grade)

(***************************************************************************)
(* str helpers.                                                            *)
(***************************************************************************)
WS == {" ", "\t", "\n", "\r"}
Digits == {"0", "1", "2", "3", "4", "5", "6", "7", "8", "9"}
DigitVal == ("0" :> 0) @@ ("1" :> 1) @@ ("2" :> 2) @@ ("3" :> 3) @@ ("4" :> 4)
            @@ ("5" :> 5) @@ ("6" :> 6) @@ ("7" :> 7) @@ ("8" :> 8) @@ ("9" :> 9)
DigitChr == <<"0", "1", "2", "3", "4", "5", "6", "7", "8", "9">>

SetMin(S) == CHOOSE x \in S : \A y \in S : x <= y

\* str.rstrip(): drop the trailing whitespace characters.
RECURSIVE rstrip(_)
rstrip(s) ==
    IF s = <<>> THEN s
    ELSE IF s[Len(s)] \in WS THEN rstrip(SubSeq(s, 1, Len(s) - 1))
    ELSE s

\* str.lstrip(), used by int().
RECURSIVE lstrip(_)
lstrip(s) ==
    IF s = <<>> THEN s
    ELSE IF s[1] \in WS THEN lstrip(Tail(s))
    ELSE s

\* x in s, for strings.
StrIn(x, s) == \E k \in 0..(Len(s) - Len(x)) : SubSeq(s, k + 1, k + Len(x)) = x

\* s.endswith(x)
EndsWith(s, x) == Len(x) <= Len(s) /\ SubSeq(s, Len(s) - Len(x) + 1, Len(s)) = x

\* s.replace(old, new) for a one-character old.
RECURSIVE replace(_, _, _)
replace(s, old, new) ==
    IF s = <<>> THEN <<>>
    ELSE (IF s[1] = old THEN new ELSE <<s[1]>>) \o replace(Tail(s), old, new)

\* s[-n:]
LastN(s, n) == IF Len(s) <= n THEN s ELSE SubSeq(s, Len(s) - n + 1, Len(s))

\* int(s): surrounding whitespace and one sign are accepted, then decimal
\* digits only; anything else raises ValueError (ok = FALSE).
RECURSIVE DigitsVal(_)
DigitsVal(s) ==
    IF s = <<>> THEN 0 ELSE 10 * DigitsVal(SubSeq(s, 1, Len(s) - 1)) + DigitVal[s[Len(s)]]

int(s) ==
    LET t == rstrip(lstrip(s))
        signed == t # <<>> /\ t[1] \in {"+", "-"}
        d == IF signed THEN Tail(t) ELSE t
    IN  IF d # <<>> /\ \A k \in 1..Len(d) : d[k] \in Digits
        THEN [ok |-> TRUE,
              val |-> IF signed /\ t[1] = "-" THEN 0 - DigitsVal(d) ELSE DigitsVal(d)]
        ELSE [ok |-> FALSE, val |-> 0]

\* str(n) for an integer n.
RECURSIVE NatStr(_)
NatStr(n) == IF n < 10 THEN <<DigitChr[n + 1]>> ELSE NatStr(n \div 10) \o <<DigitChr[(n % 10) + 1]>>

str(n) == IF n < 0 THEN <<"-">> \o NatStr(0 - n) ELSE NatStr(n)

(***************************************************************************)
(* Field transformers.                                                     *)
(***************************************************************************)
\* number.split('-')[0]
transform_zip(number) ==
    LET idx == {k \in 1..Len(number) : number[k] = "-"}
    IN  IF idx = {} THEN number ELSE SubSeq(number, 1, SetMin(idx) - 1)

\* number.replace('(', '').replace(')', ' ').replace('-', ' ')
transform_phone(number) ==
    replace(replace(replace(number, "(", <<>>), ")", <<" ">>), "-", <<" ">>)

\* get_grad_year with a grade int() rejects read as 0 instead of raising.
get_grad_year_lenient(year, grade, curr_year) ==
    IF year # <<>> THEN [ok |-> TRUE, val |-> year]
    ELSE LET g == int(grade)
         IN  [ok |-> TRUE, val |-> str((SCHOOL_YEARS - g.val) + curr_year)]

\* The provided year when there is one, otherwise 12 - int(grade) + the
\* current year; ok = FALSE is the ValueError of int(grade).
get_grad_year(year, grade, curr_year) ==
    IF year # <<>> THEN [ok |-> TRUE, val |-> year]
    ELSE LET g == int(grade)
         IN  IF g.ok THEN [ok |-> TRUE, val |-> str((SCHOOL_YEARS - g.val) + curr_year)]
             ELSE [ok |-> FALSE, val |-> <<>>]

(***************************************************************************)
(* Record writer.                                                          *)
(***************************************************************************)
markers == {<<"_","B","E","G","I","N">>, <<"_","E","N","D">>}

\* The text write_value appends to the file for one (field, value) pair.
write_value(field, value) ==
    <<".">> \o field \o <<".">> \o
    (IF \E x \in markers : StrIn(x, field)
     THEN <<"\n">>
     ELSE <<" "," "," ","|","a">> \o rstrip(value) \o <<"\n">>)

(***************************************************************************)
(* Configuration: a mapping from 'section.option' to the option's text.    *)
(* config.get raises NoSectionError / NoOptionError for an absent option.  *)
(***************************************************************************)
FilenameKeys == {"filenames.csv_name", "filenames.ascii_name"}
DataKeys == {"data.id_prefix", "data.USER_ROUTING_FLAG", "data.USER_NAME_DSP_PREF",
             "data.USER_LIBRARY", "data.USER_PROFILE", "data.USER_ACCESS",
             "data.USER_ENVIRONMENT", "data.USER_CATEGORY1", "data.USER_CATEGORY11",
             "data.expire_day", "data.USER_STATUS", "data.NOTIFY_VIA",
             "data.USER_CHG_HIST_RULE"}
SftpKeys == {"sftp.server", "sftp.port", "sftp.user", "sftp.password",
             "sftp.host_file", "sftp.disable_key_check"}
ConfigKeys == FilenameKeys \cup DataKeys \cup SftpKeys

FullConfig ==
    [k \in ConfigKeys |->
        CASE k = "filenames.csv_name" -> <<"u",".","c","s","v">>
          [] k = "filenames.ascii_name" -> <<"u",".","t","x","t">>
          [] k = "data.id_prefix" -> <<"S">>
          [] k = "data.USER_ROUTING_FLAG" -> <<"Y">>
          [] k = "data.USER_NAME_DSP_PREF" -> <<"0">>
          [] k = "data.USER_LIBRARY" -> <<"H","S">>
          [] k = "data.USER_PROFILE" -> <<"S","T","U">>
          [] k = "data.USER_ACCESS" -> <<"P","U","B">>
          [] k = "data.USER_ENVIRONMENT" -> <<"P","U","B">>
          [] k = "data.USER_CATEGORY1" -> <<"A">>
          [] k = "data.USER_CATEGORY11" -> <<"B">>
          [] k = "data.expire_day" -> <<"0","6","3","0">>
          [] k = "data.USER_STATUS" -> <<"O","K">>
          [] k = "data.NOTIFY_VIA" -> <<"E","M","A","I","L">>
          [] k = "data.USER_CHG_HIST_RULE" -> <<"A","L","L">>
          [] k = "sftp.server" -> <<"h">>
          [] k = "sftp.port" -> <<"2","2">>
          [] k = "sftp.user" -> <<"u">>
          [] k = "sftp.password" -> <<"p">>
          [] k = "sftp.host_file" -> <<"k","h">>
          [] k = "sftp.disable_key_check" -> <<"F","a","l","s","e">>]

Without(c, k) == [x \in (DOMAIN c) \ {k} |-> c[x]]
WithValue(c, k, v) == [x \in DOMAIN c |-> IF x = k THEN v ELSE c[x]]

\* config.get(section, option)
config_get(c, k) ==
    IF k \in DOMAIN c THEN [ok |-> TRUE, val |-> c[k]] ELSE [ok |-> FALSE, val |-> <<>>]

\* config.getint(section, option): int() of the text.
config_getint(c, k) ==
    IF k \in DOMAIN c THEN [ok |-> int(c[k]).ok] ELSE [ok |-> FALSE]

Upper == <<"A","B","C","D","E","F","G","H","I","J","K","L","M","N","O","P","Q","R","S","T","U","V","W","X","Y","Z">>
Lower == <<"a","b","c","d","e","f","g","h","i","j","k","l","m","n","o","p","q","r","s","t","u","v","w","x","y","z">>
lower(s) ==
    [i \in 1..Len(s) |->
        IF \E j \in 1..Len(Upper) : Upper[j] = s[i]
        THEN Lower[CHOOSE j \in 1..Len(Upper) : Upper[j] = s[i]]
        ELSE s[i]]
BOOLEAN_STATES == {<<"1">>, <<"y","e","s">>, <<"t","r","u","e">>, <<"o","n">>, <<"0">>, <<"n","o">>, <<"f","a","l","s","e">>, <<"o","f","f">>}

\* config.getboolean(section, option): ValueError for any other text.
config_getboolean(c, k) ==
    IF k \in DOMAIN c THEN [ok |-> lower(c[k]) \in BOOLEAN_STATES] ELSE [ok |-> FALSE]

(***************************************************************************)
(* Input rows: csv.DictReader maps the header's column names to the text   *)
(* of the row's fields; a column the header lacks is no key of any row.    *)
(***************************************************************************)
Columns == {"student_id", "first_name", "last_name", "birthdate", "grade", "grad_year",
            "street", "city", "state", "zip", "email", "phone_number"}

\* row[col]: KeyError when the column is absent.
row_get(row, col) ==
    IF col \in DOMAIN row THEN [ok |-> TRUE, val |-> row[col]] ELSE [ok |-> FALSE, val |-> <<>>]

(***************************************************************************)
(* Record builder: the OrderedDict of main, as the ordered list of its     *)
(* (tag, value expression) pairs.                                          *)
(***************************************************************************)
F(tag, src, arg) == [tag |-> tag, src |-> src, arg |-> arg]

\* The layout with the NOTIFY_VIA entry left out.
RecordShort ==
    << F(<<"U","S","E","R","_","I","D">>, "user_id", ""),
       F(<<"U","S","E","R","_","R","O","U","T","I","N","G","_","F","L","A","G">>, "cfg", "data.USER_ROUTING_FLAG"),
       F(<<"U","S","E","R","_","F","I","R","S","T","_","N","A","M","E">>, "row", "first_name"),
       F(<<"U","S","E","R","_","L","A","S","T","_","N","A","M","E">>, "row", "last_name"),
       F(<<"U","S","E","R","_","N","A","M","E","_","D","S","P","_","P","R","E","F">>, "cfg", "data.USER_NAME_DSP_PREF"),
       F(<<"U","S","E","R","_","B","I","R","T","H","_","D","A","T","E">>, "row", "birthdate"),
       F(<<"U","S","E","R","_","L","I","B","R","A","R","Y">>, "cfg", "data.USER_LIBRARY"),
       F(<<"U","S","E","R","_","P","R","O","F","I","L","E">>, "cfg", "data.USER_PROFILE"),
       F(<<"U","S","E","R","_","P","I","N">>, "pin", ""),
       F(<<"U","S","E","R","_","A","C","C","E","S","S">>, "cfg", "data.USER_ACCESS"),
       F(<<"U","S","E","R","_","E","N","V","I","R","O","N","M","E","N","T">>, "cfg", "data.USER_ENVIRONMENT"),
       F(<<"U","S","E","R","_","C","A","T","E","G","O","R","Y","1">>, "cfg", "data.USER_CATEGORY1"),
       F(<<"U","S","E","R","_","C","A","T","E","G","O","R","Y","1","1">>, "cfg", "data.USER_CATEGORY11"),
       F(<<"U","S","E","R","_","C","A","T","E","G","O","R","Y","1","2">>, "grad_year", ""),
       F(<<"U","S","E","R","_","P","R","I","V","_","E","X","P","I","R","E","S">>, "expires", "data.expire_day"),
       F(<<"U","S","E","R","_","S","T","A","T","U","S">>, "cfg", "data.USER_STATUS"),
       F(<<"U","S","E","R","_","M","A","I","L","I","N","G","A","D","D","R">>, "one", ""),
       F(<<"U","S","E","R","_","A","D","D","R","1","_","B","E","G","I","N">>, "empty", ""),
       F(<<"S","T","R","E","E","T">>, "row", "street"),
       F(<<"C","I","T","Y","/","S","T","A","T","E">>, "city_state", ""),
       F(<<"Z","I","P">>, "zip_code", ""),
       F(<<"P","H","O","N","E">>, "phone_number", ""),
       F(<<"E","M","A","I","L">>, "row", "email"),
       F(<<"U","S","E","R","_","A","D","D","R","1","_","E","N","D">>, "empty", ""),
       F(<<"U","S","E","R","_","X","I","N","F","O","_","B","E","G","I","N">>, "empty", ""),
       F(<<"U","S","E","R","_","X","I","N","F","O","_","E","N","D">>, "empty", ""),
       F(<<"U","S","E","R","_","C","H","G","_","H","I","S","T","_","R","U","L","E">>, "cfg", "data.USER_CHG_HIST_RULE") >>

\* Lines 212-241.
RecordLayout ==
    << F(<<"U","S","E","R","_","I","D">>, "user_id", ""),
       F(<<"U","S","E","R","_","R","O","U","T","I","N","G","_","F","L","A","G">>, "cfg", "data.USER_ROUTING_FLAG"),
       F(<<"U","S","E","R","_","F","I","R","S","T","_","N","A","M","E">>, "row", "first_name"),
       F(<<"U","S","E","R","_","L","A","S","T","_","N","A","M","E">>, "row", "last_name"),
       F(<<"U","S","E","R","_","N","A","M","E","_","D","S","P","_","P","R","E","F">>, "cfg", "data.USER_NAME_DSP_PREF"),
       F(<<"U","S","E","R","_","B","I","R","T","H","_","D","A","T","E">>, "row", "birthdate"),
       F(<<"U","S","E","R","_","L","I","B","R","A","R","Y">>, "cfg", "data.USER_LIBRARY"),
       F(<<"U","S","E","R","_","P","R","O","F","I","L","E">>, "cfg", "data.USER_PROFILE"),
       F(<<"U","S","E","R","_","P","I","N">>, "pin", ""),
       F(<<"U","S","E","R","_","A","C","C","E","S","S">>, "cfg", "data.USER_ACCESS"),
       F(<<"U","S","E","R","_","E","N","V","I","R","O","N","M","E","N","T">>, "cfg", "data.USER_ENVIRONMENT"),
       F(<<"U","S","E","R","_","C","A","T","E","G","O","R","Y","1">>, "cfg", "data.USER_CATEGORY1"),
       F(<<"U","S","E","R","_","C","A","T","E","G","O","R","Y","1","1">>, "cfg", "data.USER_CATEGORY11"),
       F(<<"U","S","E","R","_","C","A","T","E","G","O","R","Y","1","2">>, "grad_year", ""),
       F(<<"U","S","E","R","_","P","R","I","V","_","E","X","P","I","R","E","S">>, "expires", "data.expire_day"),
       F(<<"U","S","E","R","_","S","T","A","T","U","S">>, "cfg", "data.USER_STATUS"),
       F(<<"U","S","E","R","_","M","A","I","L","I","N","G","A","D","D","R">>, "one", ""),
       F(<<"U","S","E","R","_","A","D","D","R","1","_","B","E","G","I","N">>, "empty", ""),
       F(<<"S","T","R","E","E","T">>, "row", "street"),
       F(<<"C","I","T","Y","/","S","T","A","T","E">>, "city_state", ""),
       F(<<"Z","I","P">>, "zip_code", ""),
       F(<<"P","H","O","N","E">>, "phone_number", ""),
       F(<<"E","M","A","I","L">>, "row", "email"),
       F(<<"U","S","E","R","_","A","D","D","R","1","_","E","N","D">>, "empty", ""),
       F(<<"U","S","E","R","_","X","I","N","F","O","_","B","E","G","I","N">>, "empty", ""),
       F(<<"N","O","T","I","F","Y","_","V","I","A">>, "cfg", "data.NOTIFY_VIA"),
       F(<<"U","S","E","R","_","X","I","N","F","O","_","E","N","D">>, "empty", ""),
       F(<<"U","S","E","R","_","C","H","G","_","H","I","S","T","_","R","U","L","E">>, "cfg", "data.USER_CHG_HIST_RULE") >>

Ok(v) == [ok |-> TRUE, kind |-> "none", val |-> v]
Err(kind) == [ok |-> FALSE, kind |-> kind, val |-> <<>>]
FromCfg(r) == IF r.ok THEN Ok(r.val) ELSE Err("config")
FromRow(r) == IF r.ok THEN Ok(r.val) ELSE Err("input")

\* The value expression of one entry of the record, evaluated for a row:
\* a NoOptionError is a configuration error, a KeyError an input error.
FieldValue(e, row, c, pre) ==
    CASE e.src = "user_id" -> Ok(pre.user_id)
      [] e.src = "pin" -> Ok(LastN(pre.user_id, PIN_LEN))
      [] e.src = "grad_year" -> Ok(pre.grad_year)
      [] e.src = "zip_code" -> Ok(pre.zip_code)
      [] e.src = "phone_number" -> Ok(pre.phone_number)
      [] e.src = "one" -> Ok(<<"1">>)
      [] e.src = "empty" -> Ok(<<>>)
      [] e.src = "cfg" -> FromCfg(config_get(c, e.arg))
      [] e.src = "row" -> FromRow(row_get(row, e.arg))
      [] e.src = "expires" ->
            LET d == config_get(c, e.arg)
            IN  IF d.ok THEN Ok(pre.grad_year \o d.val) ELSE Err("config")
      [] e.src = "city_state" ->
            LET city == row_get(row, "city")
                state == row_get(row, "state")
            IN  IF city.ok /\ state.ok THEN Ok(city.val \o <<" ">> \o state.val)
                ELSE Err("input")

\* Lines 206-209: the transformed values and the identifier, evaluated in
\* the order of the source; the first exception ends the run.
Prelude(row, c, curr_year) ==
    LET z == row_get(row, "zip")
        p == row_get(row, "phone_number")
        y == row_get(row, "grad_year")
        g == row_get(row, "grade")
        gy == get_grad_year(y.val, g.val, curr_year)
        pref == config_get(c, "data.id_prefix")
        sid == row_get(row, "student_id")
    IN  IF ~z.ok \/ ~p.ok \/ ~y.ok \/ ~g.ok \/ ~gy.ok THEN [ok |-> FALSE, kind |-> "input"]
        ELSE IF ~pref.ok THEN [ok |-> FALSE, kind |-> "config"]
        ELSE IF ~sid.ok THEN [ok |-> FALSE, kind |-> "input"]
        ELSE [ok |-> TRUE, kind |-> "none",
              zip_code |-> transform_zip(z.val),
              phone_number |-> transform_phone(p.val),
              grad_year |-> gy.val,
              user_id |-> pref.val \o sid.val]

\* ascii_record: the (tag, value) pairs in the layout's order, or the kind
\* of the first exception raised while the OrderedDict is built.
ascii_record_of(row, c, pre) ==
    LET vals == [k \in 1..Len(RecordLayout) |-> FieldValue(RecordLayout[k], row, c, pre)]
        bad == {k \in 1..Len(RecordLayout) : ~vals[k].ok}
    IN  IF bad = {}
        THEN [ok |-> TRUE, kind |-> "none",
              rec |-> [k \in 1..Len(RecordLayout) |-> <<RecordLayout[k].tag, vals[k].val>>]]
        ELSE [ok |-> FALSE, kind |-> vals[SetMin(bad)].kind, rec |-> <<>>]

\* for field, value in ascii_record.items(): write_value(ascii_file, field, value)
RECURSIVE write_record(_)
write_record(rec) ==
    IF rec = <<>> THEN <<>>
    ELSE write_value(rec[1][1], rec[1][2]) \o write_record(Tail(rec))

BOUNDARY == <<"*","*","*"," ","D","O","C","U","M","E","N","T"," ","B","O","U","N","D","A","R","Y"," ","*","*","*","\n","F","O","R","M","=","L","D","U","S","E","R","\n">>

\* The pass without its closing blank line.
block_no_blank(rec) == BOUNDARY \o write_record(rec)

\* Everything one pass of the loop body writes for a row that raises nothing.
block_of(rec) == BOUNDARY \o write_record(rec) \o <<"\n">>

(***************************************************************************)
(* Retention: report_dates and the ordering of main.                       *)
(***************************************************************************)
\* A directory entry: its name, whether the name ends with '.txt', and the
\* time creation_date returns for it, in ticks of 1/Res second.
Entry(name, txt, ctime) == [name |-> name, txt |-> txt, ctime |-> ctime]

\* int(creation_date(path)): truncation to whole seconds.
whole_seconds(ctime) == ctime \div Res

\* report_dates: the (name, date) items of the dict, in os.listdir order.
RECURSIVE report_dates(_)
report_dates(ls) ==
    IF ls = <<>> THEN <<>>
    ELSE (IF ls[1].txt THEN << <<ls[1].name, whole_seconds(ls[1].ctime)>> >> ELSE <<>>)
         \o report_dates(Tail(ls))

\* sorted(items, reverse=True, key=itemgetter(1)): descending by date, and
\* stable: items of equal date keep the order they had.
RECURSIVE insert_desc(_, _)
insert_desc(sorted, x) ==
    IF sorted = <<>> THEN <<x>>
    ELSE IF sorted[1][2] >= x[2] THEN <<sorted[1]>> \o insert_desc(Tail(sorted), x)
    ELSE <<x>> \o sorted

\* The order without reverse=True: earliest first.
RECURSIVE insert_asc(_, _)
insert_asc(sorted, x) ==
    IF sorted = <<>> THEN <<x>>
    ELSE IF sorted[1][2] <= x[2] THEN <<sorted[1]>> \o insert_asc(Tail(sorted), x)
    ELSE <<x>> \o sorted

RECURSIVE sorted_forward(_)
sorted_forward(items) ==
    IF items = <<>> THEN <<>>
    ELSE insert_asc(sorted_forward(SubSeq(items, 1, Len(items) - 1)), items[Len(items)])

RECURSIVE sorted_reverse(_)
sorted_reverse(items) ==
    IF items = <<>> THEN <<>>
    ELSE insert_desc(sorted_reverse(SubSeq(items, 1, Len(items) - 1)), items[Len(items)])

\* The slice one position late: sorted_r[11:].
old_reports_late(sorted) == SubSeq(sorted, KEEP + 2, Len(sorted))

\* sorted_r[10:]
old_reports(sorted) == SubSeq(sorted, KEEP + 1, Len(sorted))

\* os.remove(p) having succeeded: the entry is gone from the directory.
RECURSIVE without_entry(_, _)
without_entry(ls, name) ==
    IF ls = <<>> THEN <<>>
    ELSE (IF ls[1].name = name THEN <<>> ELSE <<ls[1]>>) \o without_entry(Tail(ls), name)

(***************************************************************************)
(* State.                                                                  *)
(***************************************************************************)
VARIABLES
    pc,            \* position of the run
    config,        \* the parsed symphony.conf
    sftp,          \* args.sftp
    csv,           \* the rows csv.DictReader yields
    curr_year,     \* datetime.today() as a year
    i,             \* rows the loop has finished
    dir_exists,    \* ASCII_DIR exists
    listing,       \* the entries of ASCII_DIR, in os.listdir order
    handle,        \* ascii_file: "none", "open" or "closed"
    buf,           \* text written to ascii_file and not yet flushed
    disk,          \* the timestamped file on disk
    dest,          \* the file at ASCII_DEST
    ascii_record,  \* the record built for the latest row
    r,             \* report_dates(ASCII_DIR)
    sorted_r,      \* r's items, latest first
    j,             \* position of the retention loop in sorted_r
    failed,        \* names whose os.remove raised
    remote,        \* the file on the SFTP server
    steps,         \* the steps of main performed so far
    error,         \* the kind of the fatal error, "none" while there is none
    exitcode,      \* the exit code, -1 while the run goes on
    clock,         \* the time the file system stamps on the new file, in ticks
    slot           \* where os.listdir lists the new file

vars == <<pc, config, sftp, csv, curr_year, i, dir_exists, listing, handle, buf, disk,
          dest, ascii_record, r, sorted_r, j, failed, remote, steps, error, exitcode,
          clock, slot>>

inputs == <<config, sftp, csv, curr_year, clock, slot>>

NoFile == [exists |-> FALSE, text |-> <<>>]
File(text) == [exists |-> TRUE, text |-> text]

\* The timestamped file of the run: 'LDUSER-' + TIMESTAMP + '.txt'.
ascii_path == 0

Names(ls) == {ls[k].name : k \in 1..Len(ls)}
TxtNames(ls) == {ls[k].name : k \in {n \in 1..Len(ls) : ls[n].txt}}

(***************************************************************************)
(* Inputs of a run.                                                        *)
(***************************************************************************)
RowA ==
    [c \in Columns |->
        CASE c = "student_id" -> <<"1","0","0","2","3","4">>
          [] c = "first_name" -> <<"A","N","N">>
          [] c = "last_name" -> <<"L","E","E">>
          [] c = "birthdate" -> <<"2","0","1","0","0","1","0","2">>
          [] c = "grade" -> <<"9">>
          [] c = "grad_year" -> <<"2","0","3","0">>
          [] c = "street" -> <<"1"," ","A"," ","S","T">>
          [] c = "city" -> <<"T","R","O","Y">>
          [] c = "state" -> <<"N","Y">>
          [] c = "zip" -> <<"1","2","1","8","0","-","1","2","3","4">>
          [] c = "email" -> <<"a","@","b",".","c"," ","\t">>
          [] c = "phone_number" -> <<"(","5","5","5",")","5","5","5","-","5","5","5","5">>]

\* No grad_year, a numeric grade.
RowB == WithValue(WithValue(WithValue(RowA, "grad_year", <<>>), "grade", <<" ","1","1">>),
                  "student_id", <<"7","7">>)

\* No grad_year, a grade int() rejects.
RowK == WithValue(WithValue(RowA, "grad_year", <<>>), "grade", <<"K">>)

RowValues == {RowA, RowB, RowK}
Headers == {Columns, Columns \ {"zip"}, Columns \ {"first_name"}}
Restrict(row, header) == [c \in header |-> row[c]]

\* Every CSV of at most n rows over the sample rows: one header, which all
\* of its rows share.
CsvSamples(n) ==
    UNION {{[k \in 1..m |-> Restrict(rows[k], h)] : rows \in [1..m -> RowValues]} :
           <<m, h>> \in (0..n) \X Headers}

ConfigSamples ==
    {FullConfig,
     Without(FullConfig, "filenames.ascii_name"),
     Without(FullConfig, "data.id_prefix"),
     Without(FullConfig, "data.USER_PROFILE"),
     Without(FullConfig, "data.USER_CHG_HIST_RULE"),
     Without(FullConfig, "sftp.server"),
     WithValue(FullConfig, "sftp.port", <<"s","s","h">>)}

Years == {2026}

\* A directory of h earlier reports, one every `spacing` ticks, listed from
\* the oldest on or from the latest on, and a file of another suffix.
PriorListing(h, spacing, latest_first) ==
    [k \in 1..h |-> Entry(IF latest_first THEN h + 1 - k ELSE k, TRUE,
                          (IF latest_first THEN h + 1 - k ELSE k) * spacing)]
    \o <<Entry(h + 1, FALSE, 0)>>

\* The directory before the run, with the time and the listing position the
\* new file will get: the reports come every tick (several in one second)
\* or every second, the clock may stand before, at or after any earlier
\* report's time, and the new file is listed first or last.
DirState(exists, ls, c, s) == [exists |-> exists, listing |-> ls, clock |-> c, slot |-> s]

DirSamples(hs) ==
    UNION {{DirState(TRUE, PriorListing(h, sp, lf), c, s) :
               <<c, s>> \in (0..(h * sp + Res)) \X {1, h + 2}} :
           <<h, sp, lf>> \in hs \X {1, Res} \X BOOLEAN}

NoDir == DirState(FALSE, <<>>, 0, 1)

InitWith(configs, csvs, dirs, dests) ==
    /\ config \in configs
    /\ sftp \in BOOLEAN
    /\ csv \in csvs
    /\ curr_year \in Years
    /\ \E d \in dirs :
          /\ dir_exists = d.exists
          /\ listing = d.listing
          /\ clock = d.clock
          /\ slot = d.slot
    /\ dest \in dests
    /\ i = 0
    /\ handle = "none"
    /\ buf = <<>>
    /\ disk = NoFile
    /\ r = <<>>
    /\ sorted_r = <<>>
    /\ j = 0
    /\ failed = {}
    /\ remote = NoFile
    /\ steps = {}
    /\ error = "none"
    /\ exitcode = -1

\* Runs over every sample configuration and CSV, in a directory that does
\* not exist yet or holds KEEP earlier reports.
Init ==
    /\ pc = "import"
    /\ ascii_record = <<>>
    /\ InitWith(ConfigSamples, CsvSamples(MaxRows),
                {NoDir} \cup {d \in DirSamples({KEEP}) :
                                 /\ d.listing = PriorListing(KEEP, Res, FALSE)
                                 /\ d.clock \in {0, KEEP * Res + Res}
                                 /\ d.slot = KEEP + 2},
                {NoFile, File(<<"o","l","d","\n">>)})

\* Runs of a CSV that has a header and no row, over every sample directory.
InitRetention ==
    /\ pc = "import"
    /\ ascii_record = <<>>
    /\ InitWith({FullConfig}, {<<>>}, DirSamples(0..MaxPrior), {NoFile})

(***************************************************************************)
(* The run: module import, then main, one action per step.                 *)
(***************************************************************************)
\* exit(1), or an exception nothing catches: the process ends with code 1.
Fail(kind) ==
    /\ pc' = "failed"
    /\ error' = kind
    /\ exitcode' = 1

\* The interpreter closes ascii_file when the process ends: what is still
\* buffered, and `text`, reach the disk.
Finalized(text) ==
    /\ disk' = File(disk.text \o buf \o text)
    /\ buf' = <<>>
    /\ handle' = "closed"

\* ls with entry e listed at position s.
ListedAt(ls, e, s) == SubSeq(ls, 1, s - 1) \o <<e>> \o SubSeq(ls, s, Len(ls))

\* A copy that leaves an existing destination alone.
copyfile_keep(src, dst) == IF dst.exists THEN dst ELSE File(src.text)

\* shutil.copyfile(src, dst): dst holds the bytes src holds on disk.
copyfile(src, dst) == File(src.text)

\* Lines 47-55: the configuration is read and the file names looked up.
LoadConfig ==
    /\ pc = "import"
    /\ IF config_get(config, "filenames.csv_name").ok
          /\ config_get(config, "filenames.ascii_name").ok
       THEN pc' = "mkdir" /\ UNCHANGED <<error, exitcode>>
       ELSE Fail("config")
    /\ UNCHANGED <<inputs, i, dir_exists, listing, handle, buf, disk, dest, ascii_record,
                   r, sorted_r, j, failed, remote, steps>>

\* Lines 186-191: ASCII_DIR is created when it does not exist.
MakeDir ==
    /\ pc = "mkdir"
    /\ IF dir_exists
       THEN pc' = "open" /\ UNCHANGED <<dir_exists, steps, error, exitcode>>
       ELSE \E made \in BOOLEAN :
               IF made
               THEN /\ dir_exists' = TRUE
                    /\ steps' = steps \cup {"mkdir"}
                    /\ pc' = "open"
                    /\ UNCHANGED <<error, exitcode>>
               ELSE Fail("io") /\ UNCHANGED <<dir_exists, steps>>
    /\ UNCHANGED <<inputs, i, listing, handle, buf, disk, dest, ascii_record,
                   r, sorted_r, j, failed, remote>>

\* Lines 194-199: the timestamped file is created, empty.
OpenOutput ==
    /\ pc = "open"
    /\ \E opened \in BOOLEAN :
          IF opened
          THEN /\ listing' = ListedAt(listing, Entry(ascii_path, TRUE, clock), slot)
               /\ disk' = File(<<>>)
               /\ handle' = "open"
               /\ steps' = steps \cup {"open"}
               /\ pc' = "csv"
               /\ UNCHANGED <<error, exitcode>>
          ELSE Fail("io") /\ UNCHANGED <<listing, disk, handle, steps>>
    /\ UNCHANGED <<inputs, i, dir_exists, buf, dest, ascii_record,
                   r, sorted_r, j, failed, remote>>

\* Line 202: the CSV is opened; no handler catches its failure.
OpenCsv ==
    /\ pc = "csv"
    /\ \E opened \in BOOLEAN :
          IF opened
          THEN pc' = "loop" /\ UNCHANGED <<error, exitcode, disk, buf, handle>>
          ELSE Fail("io") /\ Finalized(<<>>)
    /\ UNCHANGED <<inputs, i, dir_exists, listing, dest, ascii_record,
                   r, sorted_r, j, failed, remote, steps>>

\* Lines 204-245: one pass of the loop body.  The buffer of ascii_file may
\* or may not be flushed by the pass.
ProcessRow ==
    /\ pc = "loop"
    /\ i < Len(csv)
    /\ LET row == csv[i + 1]
           pre == Prelude(row, config, curr_year)
           built == ascii_record_of(row, config, pre)
       IN  IF ~pre.ok
           THEN Fail(pre.kind) /\ Finalized(<<>>) /\ UNCHANGED <<i, ascii_record>>
           ELSE IF ~built.ok
           THEN Fail(built.kind) /\ Finalized(BOUNDARY) /\ UNCHANGED <<i, ascii_record>>
           ELSE /\ ascii_record' = built.rec
                /\ i' = i + 1
                /\ \E flushed \in BOOLEAN :
                      IF flushed
                      THEN /\ disk' = File(disk.text \o buf \o block_of(built.rec))
                           /\ buf' = <<>>
                      ELSE /\ buf' = buf \o block_of(built.rec)
                           /\ disk' = disk
                /\ UNCHANGED <<pc, error, exitcode, handle>>
    /\ UNCHANGED <<inputs, dir_exists, listing, dest, r, sorted_r, j, failed, remote, steps>>

\* Line 248: ascii_file.close() flushes the buffer.
CloseOutput ==
    /\ pc = "loop"
    /\ i = Len(csv)
    /\ Finalized(<<>>)
    /\ steps' = steps \cup {"close"}
    /\ pc' = "copy"
    /\ UNCHANGED <<inputs, i, dir_exists, listing, dest, ascii_record,
                   r, sorted_r, j, failed, remote, error, exitcode>>

\* Lines 103-109 and 250: copy_report(ascii_path).
CopyReport ==
    /\ pc = "copy"
    /\ \E copied \in BOOLEAN :
          IF copied
          THEN /\ dest' = copyfile(disk, dest)
               /\ steps' = steps \cup {"copy"}
               /\ pc' = "dates"
               /\ UNCHANGED <<error, exitcode>>
          ELSE Fail("io") /\ UNCHANGED <<dest, steps>>
    /\ UNCHANGED <<inputs, i, dir_exists, listing, handle, buf, disk, ascii_record,
                   r, sorted_r, j, failed, remote>>

\* Lines 253-254: the reports and their dates, latest first.
ReportDates ==
    /\ pc = "dates"
    /\ r' = report_dates(listing)
    /\ sorted_r' = sorted_reverse(report_dates(listing))
    /\ j' = 1
    /\ pc' = "remove"
    /\ UNCHANGED <<inputs, i, dir_exists, listing, handle, buf, disk, dest, ascii_record,
                   failed, remote, steps, error, exitcode>>

\* A raised os.remove ending the run.
remove_raised_fatal(state) == "failed"

\* What a raised os.remove does to the run: nothing (except ...: pass).
remove_raised(state) == state

\* Lines 255-260: one pass of the retention loop.
RemoveOld ==
    /\ pc = "remove"
    /\ j <= Len(old_reports(sorted_r))
    /\ LET x == old_reports(sorted_r)[j]
       IN  \E removed \in BOOLEAN :
              IF removed
              THEN /\ listing' = without_entry(listing, x[1])
                   /\ disk' = IF x[1] = ascii_path THEN NoFile ELSE disk
                   /\ j' = j + 1
                   /\ UNCHANGED <<failed, pc, error, exitcode>>
              ELSE /\ failed' = failed \cup {x[1]}
                   /\ pc' = remove_raised(pc)
                   /\ IF pc' = "failed"
                      THEN error' = "io" /\ exitcode' = 1 /\ j' = j
                      ELSE j' = j + 1 /\ UNCHANGED <<error, exitcode>>
                   /\ UNCHANGED <<listing, disk>>
    /\ UNCHANGED <<inputs, i, dir_exists, handle, buf, dest, ascii_record,
                   r, sorted_r, remote, steps>>

\* Lines 262-264: the loop is over; the upload follows when the flag is set.
FinishRetention ==
    /\ pc = "remove"
    /\ j > Len(old_reports(sorted_r))
    /\ steps' = steps \cup {"retention"}
    /\ IF sftp
       THEN pc' = "upload" /\ UNCHANGED exitcode
       ELSE pc' = "done" /\ exitcode' = 0
    /\ UNCHANGED <<inputs, i, dir_exists, listing, handle, buf, disk, dest, ascii_record,
                   r, sorted_r, j, failed, remote, error>>

\* Lines 138-172: upload_ftp_file(ASCII_DEST).
Upload ==
    /\ pc = "upload"
    /\ steps' = steps \cup {"upload"}
    /\ IF /\ config_get(config, "sftp.server").ok
          /\ config_getint(config, "sftp.port").ok
          /\ config_get(config, "sftp.user").ok
          /\ config_get(config, "sftp.password").ok
          /\ config_get(config, "sftp.host_file").ok
          /\ config_getboolean(config, "sftp.disable_key_check").ok
       THEN \E sent \in BOOLEAN :
               IF sent
               THEN /\ remote' = File(dest.text)
                    /\ pc' = "done"
                    /\ exitcode' = 0
                    /\ UNCHANGED error
               ELSE Fail("transfer") /\ UNCHANGED remote
       ELSE Fail("config") /\ UNCHANGED remote
    /\ UNCHANGED <<inputs, i, dir_exists, listing, handle, buf, disk, dest, ascii_record,
                   r, sorted_r, j, failed>>

Next ==
    \/ LoadConfig
    \/ MakeDir
    \/ OpenOutput
    \/ OpenCsv
    \/ ProcessRow
    \/ CloseOutput
    \/ CopyReport
    \/ ReportDates
    \/ RemoveOld
    \/ FinishRetention
    \/ Upload

Spec == Init /\ [][Next]_vars

\* The steps of a run whose CSV has no row: the loop body is never entered.
NextRetention ==
    \/ LoadConfig
    \/ MakeDir
    \/ OpenOutput
    \/ OpenCsv
    \/ CloseOutput
    \/ CopyReport
    \/ ReportDates
    \/ RemoveOld
    \/ FinishRetention
    \/ Upload

SpecRetention == InitRetention /\ [][NextRetention]_vars

(***************************************************************************)
(* write_value on its own: one (field, value) pair written to an empty     *)
(* file.  ascii_record holds the pair and buf the text the file receives.  *)
(***************************************************************************)
FieldSamples ==
    {RecordLayout[k].tag : k \in 1..Len(RecordLayout)}
    \cup {<<"U","S","E","R","_","E","N","D","_","D","A","T","E">>, <<"X","_","B","E","G","I","N","_","Y">>, <<"_","E","N","D","I","N","G">>, <<"B","E","G","I","N">>, <<"E","N","D">>, <<"U","S","E","R","_","B","E","G","I","N">>}

ValueSamples == {<<>>, <<"x">>, <<"x"," ">>, <<" ","x">>, <<"a"," ","b","\t","\n">>, <<" ">>, <<"1","\n","2">>}

InitWrite ==
    /\ pc = "write_value"
    /\ ascii_record \in {<< <<f, v>> >> : <<f, v>> \in FieldSamples \X ValueSamples}
    /\ InitWith({FullConfig}, {<<>>}, {NoDir}, {NoFile})

\* Lines 62-75: write_value(file, field, value); a failed write is exit(1).
WriteValue ==
    /\ pc = "write_value"
    /\ \E written \in BOOLEAN :
          IF written
          THEN /\ buf' = buf \o write_value(ascii_record[1][1], ascii_record[1][2])
               /\ pc' = "written"
               /\ UNCHANGED <<error, exitcode>>
          ELSE Fail("io") /\ UNCHANGED buf
    /\ UNCHANGED <<inputs, i, dir_exists, listing, handle, disk, dest, ascii_record,
                   r, sorted_r, j, failed, remote, steps>>

SpecWrite == InitWrite /\ [][WriteValue]_vars

(***************************************************************************)
(* Properties.                                                             *)
(***************************************************************************)
IsPrefix(p, t) == Len(p) <= Len(t) /\ SubSeq(t, 1, Len(p)) = p
Line(t) == t \o <<"\n">>
NoDuplicates(seq) == \A a, b \in 1..Len(seq) : seq[a] = seq[b] => a = b
TagsOf(rec) == [k \in 1..Len(rec) |-> rec[k][1]]

\* The record main builds for a row.
RecordFor(row) == ascii_record_of(row, config, Prelude(row, config, curr_year)).rec

\* The block of one record: the boundary line, the form line, the record's
\* field lines, one blank line.
ExpectedBlock(rec) ==
    Line(<<"*","*","*"," ","D","O","C","U","M","E","N","T"," ","B","O","U","N","D","A","R","Y"," ","*","*","*">>) \o Line(<<"F","O","R","M","=","L","D","U","S","E","R">>) \o write_record(rec) \o Line(<<>>)

RECURSIVE ExpectedText(_)
ExpectedText(rows) ==
    IF rows = <<>> THEN <<>> ELSE ExpectedBlock(RecordFor(rows[1])) \o ExpectedText(Tail(rows))

\* The reports left for deletion by the dates alone: those with at least
\* KEEP reports of a later date.
DateOf(items, name) == (CHOOSE x \in {items[k] : k \in 1..Len(items)} : x[1] = name)[2]
ReportNames(items) == {items[k][1] : k \in 1..Len(items)}
Later(items, name) == {n \in ReportNames(items) : DateOf(items, n) > DateOf(items, name)}
Oldest(items) == {n \in ReportNames(items) : Cardinality(Later(items, n)) >= KEEP}
Newest(items) == ReportNames(items) \ Oldest(items)
DistinctDates(items) == \A a, b \in 1..Len(items) : items[a][2] = items[b][2] => a = b
RetentionDone == "retention" \in steps

\* C1 as stated: after the retention pass the output directory holds at
\* most KEEP '.txt' files, whatever the delete operations did.
C1_AtMostKeep ==
    RetentionDone => Cardinality(TxtNames(listing)) <= KEEP

\* C1, amended: after the retention pass at most KEEP '.txt' files are left
\* besides those whose deletion failed; every file beyond KEEP is one whose
\* deletion failed.
C1_AtMostKeepBesidesFailed ==
    RetentionDone =>
        /\ Cardinality(TxtNames(listing) \ failed) <= KEEP
        /\ Cardinality(TxtNames(listing)) <= KEEP + Cardinality(failed)

C1_Witness ==
    /\ RetentionDone
    /\ Len(r) >= KEEP + 2
    /\ failed = {}
    /\ Cardinality(TxtNames(listing)) = KEEP

\* C2 as stated: with pairwise distinct whole-second dates the retention
\* pass deletes exactly the reports beyond the KEEP latest and leaves the
\* KEEP latest.
C2_DeletesExactlyOldest ==
    (RetentionDone /\ DistinctDates(r)) => TxtNames(listing) = Newest(r)

\* C2, amended: with pairwise distinct dates the pass tries to delete exactly
\* the reports beyond the KEEP latest; it leaves the KEEP latest and, of the
\* older ones, those whose deletion failed (none when no deletion fails).
C2_DeletesOldestUnlessFailed ==
    (RetentionDone /\ DistinctDates(r)) =>
        /\ ReportNames(old_reports(sorted_r)) = Oldest(r)
        /\ failed \subseteq Oldest(r)
        /\ TxtNames(listing) = Newest(r) \cup failed
        /\ Cardinality(Newest(r)) = IF Len(r) <= KEEP THEN Len(r) ELSE KEEP

C2_Witness ==
    /\ RetentionDone
    /\ DistinctDates(r)
    /\ Len(r) = KEEP + 5
    /\ failed = {}
    /\ TxtNames(listing) = Newest(r)

\* C3: a run that ends in a configuration error has created neither the
\* output directory nor the timestamped file and has not written the
\* destination copy.
C3_ConfigErrorBeforeOutput ==
    error = "config" =>
        /\ "mkdir" \notin steps
        /\ "open" \notin steps
        /\ ~disk.exists
        /\ "copy" \notin steps

\* The tags of section 4.2, in its order.
LduserTags ==
    << <<"U","S","E","R","_","I","D">>, <<"U","S","E","R","_","R","O","U","T","I","N","G","_","F","L","A","G">>, <<"U","S","E","R","_","F","I","R","S","T","_","N","A","M","E">>, <<"U","S","E","R","_","L","A","S","T","_","N","A","M","E">>,
       <<"U","S","E","R","_","N","A","M","E","_","D","S","P","_","P","R","E","F">>, <<"U","S","E","R","_","B","I","R","T","H","_","D","A","T","E">>, <<"U","S","E","R","_","L","I","B","R","A","R","Y">>, <<"U","S","E","R","_","P","R","O","F","I","L","E">>,
       <<"U","S","E","R","_","P","I","N">>, <<"U","S","E","R","_","A","C","C","E","S","S">>, <<"U","S","E","R","_","E","N","V","I","R","O","N","M","E","N","T">>, <<"U","S","E","R","_","C","A","T","E","G","O","R","Y","1">>,
       <<"U","S","E","R","_","C","A","T","E","G","O","R","Y","1","1">>, <<"U","S","E","R","_","C","A","T","E","G","O","R","Y","1","2">>, <<"U","S","E","R","_","P","R","I","V","_","E","X","P","I","R","E","S">>, <<"U","S","E","R","_","S","T","A","T","U","S">>,
       <<"U","S","E","R","_","M","A","I","L","I","N","G","A","D","D","R">>, <<"U","S","E","R","_","A","D","D","R","1","_","B","E","G","I","N">>, <<"S","T","R","E","E","T">>, <<"C","I","T","Y","/","S","T","A","T","E">>, <<"Z","I","P">>,
       <<"P","H","O","N","E">>, <<"E","M","A","I","L">>, <<"U","S","E","R","_","A","D","D","R","1","_","E","N","D">>, <<"U","S","E","R","_","X","I","N","F","O","_","B","E","G","I","N">>, <<"N","O","T","I","F","Y","_","V","I","A">>,
       <<"U","S","E","R","_","X","I","N","F","O","_","E","N","D">>, <<"U","S","E","R","_","C","H","G","_","H","I","S","T","_","R","U","L","E">> >>

\* C4 as stated: the record built for a row has exactly 26 tags, the
\* identifier first and the change-history rule last, none twice.
C4_TwentySixTags ==
    ascii_record # <<>> =>
        /\ Len(ascii_record) = 26
        /\ ascii_record[1][1] = <<"U","S","E","R","_","I","D">>
        /\ ascii_record[Len(ascii_record)][1] = <<"U","S","E","R","_","C","H","G","_","H","I","S","T","_","R","U","L","E">>
        /\ NoDuplicates(TagsOf(ascii_record))

\* C4, amended: the record built for a row has exactly the 28 tags of
\* section 4.2 in that order, none left out and none twice, whatever the
\* row's values.
C4_TagsOfSection42 ==
    ascii_record # <<>> =>
        /\ TagsOf(ascii_record) = LduserTags
        /\ Len(ascii_record) = 28
        /\ NoDuplicates(TagsOf(ascii_record))

C4_Witness ==
    /\ i = 2
    /\ csv[1] # csv[2]
    /\ TagsOf(ascii_record) = LduserTags

\* The line C5 gives a pair: the tag between dots, then a line break when
\* the tag ends with '_BEGIN' or '_END', else the gap, '|a' and the value
\* without its trailing whitespace.
C5_Line(field, value) ==
    IF EndsWith(field, <<"_","B","E","G","I","N">>) \/ EndsWith(field, <<"_","E","N","D">>)
    THEN <<".">> \o field \o <<".">> \o <<"\n">>
    ELSE <<".">> \o field \o <<".">> \o <<" "," "," ","|","a">> \o rstrip(value) \o <<"\n">>

\* C5: write_value renders every (tag, value) pair in the shape its tag's
\* ending decides.
C5_ShapeByTagEnding ==
    pc = "written" => buf = C5_Line(ascii_record[1][1], ascii_record[1][2])

\* C6: once the output file is closed it holds one block per input row, in
\* input order, the k-th block that of the k-th row's record, and nothing
\* else.
C6_OneBlockPerRow ==
    ("close" \in steps /\ disk.exists) =>
        /\ i = Len(csv)
        /\ disk.text = ExpectedText(csv)

C6_Witness ==
    /\ pc = "done"
    /\ exitcode = 0
    /\ Len(csv) = 2
    /\ csv[1] # csv[2]
    /\ disk.exists
    /\ disk.text = ExpectedText(csv)

\* C7: the copy is made after every row is written and the file is closed,
\* and from then on the destination holds the bytes of the run's
\* timestamped file, whatever it held before.
C7_CopyAfterClose ==
    "copy" \in steps =>
        /\ handle = "closed"
        /\ buf = <<>>
        /\ i = Len(csv)
        /\ dest.exists
        /\ disk.exists => dest.text = disk.text

C7_Witness ==
    /\ pc = "done"
    /\ "copy" \in steps
    /\ Len(csv) >= 1
    /\ disk.exists
    /\ dest = disk

\* C8 as stated: a run in which a deletion failed leaves the file in place,
\* tries every other old report, runs the upload when the flag is set and
\* exits with code 0.
C8_FailedDeleteExitsZero ==
    (pc \in {"done", "failed"} /\ failed # {}) =>
        /\ failed \subseteq TxtNames(listing)
        /\ j = Len(old_reports(sorted_r)) + 1
        /\ sftp => "upload" \in steps
        /\ exitcode = 0

\* C8, amended: a failed deletion leaves the file in place and does not end
\* the run; every other old report is still tried, the upload still runs
\* when the flag is set, and the run exits with code 0 unless the upload
\* itself fails.
C8_FailedDeleteNotFatal ==
    failed # {} =>
        /\ failed \subseteq TxtNames(listing)
        /\ pc \in {"remove", "upload", "done", "failed"}
        /\ pc # "remove" => j = Len(old_reports(sorted_r)) + 1 /\ RetentionDone
        /\ pc \in {"done", "failed"} => (sftp <=> "upload" \in steps)
        /\ pc = "done" => exitcode = 0 /\ (sftp => remote.exists)
        /\ pc = "failed" => "upload" \in steps /\ error \in {"config", "transfer"}

C8_Witness ==
    /\ pc = "done"
    /\ exitcode = 0
    /\ sftp
    /\ remote.exists
    /\ Len(old_reports(sorted_r)) >= 2
    /\ failed = {old_reports(sorted_r)[1][1]}
    /\ old_reports(sorted_r)[2][1] \notin TxtNames(listing)

\* A row no input error is raised for: every required column is there, and
\* the grade is numeric when grad_year is empty.
RowGood(row) ==
    /\ Columns \subseteq DOMAIN row
    /\ row["grad_year"] # <<>> \/ int(row["grade"]).ok

\* C9: the run never gets past a row that lacks a required column or has an
\* empty grad_year with a non-numeric grade; a run ended by an input error
\* has exit code 1, stopped at the offending row, left the blocks of the
\* earlier rows in the timestamped file, which is still there, and did none
\* of the later steps.
C9_InputErrorAborts ==
    /\ \A k \in 1..i : RowGood(csv[k])
    /\ "close" \in steps => \A k \in 1..Len(csv) : RowGood(csv[k])
    /\ error = "input" =>
          /\ pc = "failed"
          /\ exitcode = 1
          /\ i < Len(csv)
          /\ ~RowGood(csv[i + 1])
          /\ disk.exists
          /\ ascii_path \in TxtNames(listing)
          /\ IsPrefix(ExpectedText(SubSeq(csv, 1, i)), disk.text)
          /\ steps \cap {"close", "copy", "retention", "upload"} = {}
          /\ r = <<>>
          /\ ~remote.exists

C9_Witness ==
    /\ error = "input"
    /\ i = 1
    /\ csv[2]["grad_year"] = <<>>
    /\ IsPrefix(ExpectedText(SubSeq(csv, 1, 1)), disk.text)
    /\ disk.text # <<>>

\* C10: the retention pass of a run never deletes the timestamped file the
\* run produced.
C10_NewReportKept ==
    RetentionDone => ascii_path \in TxtNames(listing)

=============================================================================
